---- MODULE Spec2Model ----
(***************************************************************************)
(* A model of the indonesian-geocoder service (src/src/main.rs): the two   *)
(* request handlers reverse_geocode and search_places, run as concurrent   *)
(* tasks over a shared read-only SQLite pool.                              *)
(*                                                                         *)
(* Strings are sequences of Unicode code points, so that lowercasing,      *)
(* whitespace splitting, UTF-8 byte length and SQL LIKE matching are       *)
(* computed and not assumed.  Coordinates are whole degrees.  An Option is *)
(* a sequence of length 0 (None) or 1 (Some).                              *)
(***************************************************************************)
EXTENDS Integers, Sequences, FiniteSets, TLC

VARIABLES db, pc, req, dbOk, rows, idx, tested, resp, queries

vars == <<db, pc, req, dbOk, rows, idx, tested, resp, queries>>

(***************************************************************************)
(* Bounds of the model.                                                    *)
(***************************************************************************)
\* longest villages table Init draws
MaxVillages == 3
\* longest free-text query (in code points) the search handler is sent
MaxQLen == 3
\* concurrent request tasks in flight
NumReq == 2

(***************************************************************************)
(* Program constants.                                                      *)
(***************************************************************************)
DefaultLimit == 10
MaxLimit == 50
PoolCap == 100

None == <<>>
Some(x) == <<x>>
Min(a, b) == IF a <= b THEN a ELSE b
Max(a, b) == IF a >= b THEN a ELSE b

RECURSIVE Concat(_)
\* concatenation of a sequence of sequences
Concat(ss) == IF ss = <<>> THEN <<>> ELSE Head(ss) \o Concat(Tail(ss))

\* Vec::truncate(n): keep the first n elements, all of them when there are fewer
Truncate(s, n) == SubSeq(s, 1, Min(n, Len(s)))

(***************************************************************************)
(* Strings.                                                                *)
(***************************************************************************)
\* char::to_lowercase on the ASCII and Latin-1 letters (U+00D7 is no letter)
UnicodeLower(c) ==
    IF (c >= 65 /\ c <= 90) \/ (c >= 192 /\ c <= 222 /\ c # 215) THEN c + 32 ELSE c

\* str::to_lowercase
ToLowercase(s) == [i \in 1 .. Len(s) |-> UnicodeLower(s[i])]

\* SQLite's built-in LOWER() and LIKE fold case for ASCII letters only
AsciiLower(c) == IF c >= 65 /\ c <= 90 THEN c + 32 ELSE c

SqlLower(s) == [i \in 1 .. Len(s) |-> AsciiLower(s[i])]

\* char::is_whitespace (White_Space) for the code points below U+0100
IsWhitespace(c) == c \in {9, 10, 11, 12, 13, 32, 133, 160}

RECURSIVE SplitFrom(_, _)
\* the tokens of s given the token cur collected so far
SplitFrom(s, cur) ==
    IF s = <<>> THEN (IF cur = <<>> THEN <<>> ELSE <<cur>>)
    ELSE IF IsWhitespace(Head(s))
         THEN (IF cur = <<>> THEN <<>> ELSE <<cur>>) \o SplitFrom(Tail(s), <<>>)
         ELSE SplitFrom(Tail(s), Append(cur, Head(s)))

RECURSIVE SplitOnSpaceFrom(_, _)
SplitOnSpaceFrom(s, cur) ==
    IF s = <<>> THEN <<cur>>
    ELSE IF Head(s) = 32 THEN <<cur>> \o SplitOnSpaceFrom(Tail(s), <<>>)
         ELSE SplitOnSpaceFrom(Tail(s), Append(cur, Head(s)))

\* variant of SplitWhitespace: str::split(' '), which keeps the empty pieces
SplitOnSpace(s) == SplitOnSpaceFrom(s, <<>>)

\* str::split_whitespace
SplitWhitespace(s) == SplitFrom(s, <<>>)

\* bytes of the UTF-8 encoding of one code point
Utf8Len(c) == IF c < 128 THEN 1 ELSE IF c < 2048 THEN 2 ELSE IF c < 65536 THEN 3 ELSE 4

RECURSIVE ByteLen(_)
\* String::len(): the length in bytes
ByteLen(s) == IF s = <<>> THEN 0 ELSE Utf8Len(Head(s)) + ByteLen(Tail(s))

\* s.chars().count(): the length in characters
CharLen(s) == Len(s)

\* format!("%{}%", s)
LikePattern(s) == <<37>> \o s \o <<37>>

RECURSIVE Like(_, _)
\* SQLite "s LIKE p" with no ESCAPE clause: % is any run, _ any one character
Like(p, s) ==
    IF p = <<>> THEN s = <<>>
    ELSE IF Head(p) = 37 THEN Like(Tail(p), s) \/ (s # <<>> /\ Like(p, Tail(s)))
    ELSE IF s = <<>> THEN FALSE
    ELSE IF Head(p) = 95 THEN Like(Tail(p), Tail(s))
    ELSE AsciiLower(Head(p)) = AsciiLower(Head(s)) /\ Like(Tail(p), Tail(s))

\* "Kelurahan "
KelurahanStr == <<75, 101, 108, 117, 114, 97, 104, 97, 110, 32>>
\* ", Kecamatan "
KecamatanStr == <<44, 32, 75, 101, 99, 97, 109, 97, 116, 97, 110, 32>>
\* ", "
CommaStr == <<44, 32>>

\* format!("Kelurahan {}, Kecamatan {}, {}, {}", v_name, d_name, r_name, p_name)
FullName(v, d, r, p) == KelurahanStr \o v \o KecamatanStr \o d \o CommaStr \o r \o CommaStr \o p

(***************************************************************************)
(* Geometry: the well-known-binary decoder and the containment predicate   *)
(* of the geometry library.  A blob is modelled word by word:              *)
(*   <<byte order, geometry type, ring count, point count, x1, y1, ...>>   *)
(* with x = longitude and y = latitude.                                    *)
(***************************************************************************)
\* Wkb(blob).to_geo(): Ok(polygon) or Err
WkbToGeo(blob) ==
    IF /\ Len(blob) >= 4
       /\ blob[1] \in {0, 1}
       /\ blob[2] = 3
       /\ blob[3] = 1
       /\ Len(blob) = 4 + 2 * blob[4]
    THEN [ok |-> TRUE,
          ring |-> [i \in 1 .. blob[4] |-> <<blob[3 + 2 * i], blob[4 + 2 * i]>>]]
    ELSE [ok |-> FALSE, ring |-> <<>>]

\* twice the signed area of the triangle a, b, p
Cross(a, b, p) == (b[1] - a[1]) * (p[2] - a[2]) - (b[2] - a[2]) * (p[1] - a[1])

OnSegment(a, b, p) ==
    /\ Cross(a, b, p) = 0
    /\ Min(a[1], b[1]) <= p[1] /\ p[1] <= Max(a[1], b[1])
    /\ Min(a[2], b[2]) <= p[2] /\ p[2] <= Max(a[2], b[2])

\* the edge a-b crosses the horizontal ray from p towards +x
CrossesRay(a, b, p) ==
    /\ (a[2] > p[2]) # (b[2] > p[2])
    /\ IF b[2] > a[2] THEN Cross(a, b, p) > 0 ELSE Cross(a, b, p) < 0

\* geom.contains(&point): the point lies in the interior (the boundary is excluded)
Contains(ring, p) ==
    LET n == Len(ring)
        Nxt(i) == IF i = n THEN 1 ELSE i + 1
    IN /\ n >= 3
       /\ \A i \in 1 .. n : ~OnSegment(ring[i], ring[Nxt(i)], p)
       /\ Cardinality({i \in 1 .. n : CrossesRay(ring[i], ring[Nxt(i)], p)}) % 2 = 1

\* whole degrees of latitude and longitude the model places points on
Coords == 0 .. 4

\* haversine distance in meters, rounded, between (lat1, 0) and (lat2, dlng):
\* HaversineTable[lat1 + 1][lat2 + 1][dlng + 1], mean earth radius 6371008.8 m
HaversineTable ==
  <<
    <<<<0, 111195, 222390, 333585, 444780>>,
      <<111195, 157250, 248630, 351614, 458447>>,
      <<222390, 248630, 314475, 400863, 497199>>,
      <<333585, 351614, 400863, 471653, 555813>>,
      <<444780, 458447, 497199, 555813, 628759>>>>,
    <<<<111195, 157250, 248630, 351614, 458447>>,
      <<0, 111178, 222356, 333534, 444713>>,
      <<111195, 157226, 248569, 351517, 458316>>,
      <<222390, 248607, 314403, 400736, 497017>>,
      <<333585, 351592, 400788, 471509, 555596>>>>,
    <<<<222390, 248630, 314475, 400863, 497199>>,
      <<111195, 157226, 248569, 351517, 458316>>,
      <<0, 111127, 222255, 333382, 444509>>,
      <<111195, 157178, 248448, 351324, 458053>>,
      <<222390, 248569, 314284, 400525, 496714>>>>,
    <<<<333585, 351614, 400863, 471653, 555813>>,
      <<222390, 248607, 314403, 400736, 497017>>,
      <<111195, 157178, 248448, 351324, 458053>>,
      <<0, 111043, 222085, 333128, 444171>>,
      <<111195, 157106, 248266, 351035, 457658>>>>,
    <<<<444780, 458447, 497199, 555813, 628759>>,
      <<333585, 351592, 400788, 471509, 555596>>,
      <<222390, 248569, 314284, 400525, 496714>>,
      <<111195, 157106, 248266, 351035, 457658>>,
      <<0, 110924, 221848, 332772, 443696>>>>>>

\* user_point.haversine_distance(&center_point).round() as i64
HaversineMeters(lat1, lng1, lat2, lng2) ==
    HaversineTable[lat1 + 1][lat2 + 1][(IF lng1 >= lng2 THEN lng1 - lng2 ELSE lng2 - lng1) + 1]

(***************************************************************************)
(* The dataset: the villages table joined up to its district, regency and  *)
(* province names, in the order the storage scans it.                      *)
(***************************************************************************)
\* a closed ring as a polygon blob
PolygonBlob(pts) == <<1, 3, 1, Len(pts)>> \o Concat(pts)

Village(id, name, district, regency, province, lat, lng, box, blob) ==
    [id |-> id, name |-> name, district |-> district, regency |-> regency,
     province |-> province, lat |-> lat, lng |-> lng,
     min_lat |-> box[1], max_lat |-> box[2], min_lng |-> box[3], max_lng |-> box[4],
     boundaries |-> blob]

\* the rows Init builds a villages table from; names are
\* "Ab"/"b", "abc"/"c", "éé"/"b", "É"/"É" and "b"/"b", provinces "a" and "b"
VillageUniverse ==
    { \* a square, (0,0)-(3,3)
      Village(1, <<65, 98>>, <<98>>, <<97>>, <<97>>, 1, 1, <<0, 3, 0, 3>>,
              PolygonBlob(<<<<0, 0>>, <<3, 0>>, <<3, 3>>, <<0, 3>>, <<0, 0>>>>)),
      \* a triangle that overlaps the square and fills half of its box
      Village(2, <<97, 98, 99>>, <<99>>, <<97>>, <<97>>, 1, 3, <<0, 4, 0, 4>>,
              PolygonBlob(<<<<0, 0>>, <<4, 0>>, <<4, 4>>, <<0, 0>>>>)),
      \* a truncated blob: five points announced, two stored
      Village(3, <<233, 233>>, <<98>>, <<97>>, <<97>>, 2, 2, <<0, 4, 0, 4>>,
              <<1, 3, 1, 5, 0, 0, 4, 0>>),
      \* a blob of a geometry type the decoder does not know
      Village(4, <<201>>, <<201>>, <<97>>, <<97>>, 4, 4, <<1, 3, 1, 3>>,
              <<1, 9, 1, 0>>),
      \* a square, (1,1)-(4,4), overlapping both polygons
      Village(5, <<98>>, <<98>>, <<98>>, <<98>>, 3, 3, <<1, 4, 1, 4>>,
              PolygonBlob(<<<<1, 1>>, <<4, 1>>, <<4, 4>>, <<1, 4>>, <<1, 1>>>>)) }

\* the table whose rows have the given ids, in that order
TableOf(ids) == [i \in 1 .. Len(ids) |-> CHOOSE v \in VillageUniverse : v.id = ids[i]]

\* the tables of at most n rows with distinct ids
Tables(n) ==
    UNION { { t \in [1 .. k -> VillageUniverse] :
                \A i, j \in 1 .. k : i # j => t[i].id # t[j].id } : k \in 0 .. n }

\* a table of n rows whose names, centroids and provinces cycle
BigTable(n) ==
    [i \in 1 .. n |->
        Village(100 + i, [j \in 1 .. 1 + (i % 3) |-> 97], <<98>>, <<97>>, <<97>>,
                i % 5, (i * 3) % 5, <<0, 4, 0, 4>>, <<>>)]

\* WHERE ? BETWEEN v.min_lat AND v.max_lat AND ? BETWEEN v.min_lng AND v.max_lng
FindByBoundingBox(table, lat, lng) ==
    SelectSeq(table, LAMBDA v : /\ v.min_lat <= lat /\ lat <= v.max_lat
                                /\ v.min_lng <= lng /\ lng <= v.max_lng)

\* (LOWER(v.name) LIKE ? OR LOWER(d.name) LIKE ? OR LOWER(r.name) LIKE ? OR LOWER(p.name) LIKE ?)
RowMatches(v, pattern) ==
    \E f \in {v.name, v.district, v.regency, v.province} : Like(pattern, SqlLower(f))

\* WHERE clause_1 AND ... AND clause_n LIMIT 100
FindByKeywords(table, patterns) ==
    Truncate(SelectSeq(table, LAMBDA v : \A i \in 1 .. Len(patterns) :
                                             RowMatches(v, patterns[i])), PoolCap)

(***************************************************************************)
(* Responses.                                                              *)
(***************************************************************************)
NullData == [tag |-> "null", v |-> <<>>]
OneData(info) == [tag |-> "one", v |-> <<info>>]
ListData(infos) == [tag |-> "list", v |-> infos]

LocationInfo(row, dist) ==
    [level |-> "village", id |-> row.id, name |-> row.name,
     location_detail |-> [province |-> row.province, regency |-> row.regency,
                          district |-> row.district, village |-> row.name],
     full_name |-> FullName(row.name, row.district, row.regency, row.province),
     lat |-> row.lat, lng |-> row.lng, distance_meters |-> dist]

ApiResponse(status, success, data, error) ==
    [status |-> status, success |-> success, data |-> data, error |-> error]

NotFound == ApiResponse(200, FALSE, NullData, Some("Location not found"))
InternalError == ApiResponse(500, FALSE, NullData, Some("Internal server error"))
NoResp == ApiResponse(0, FALSE, NullData, None)

NoReq == [kind |-> "none", lat |-> None, lng |-> None, q |-> <<>>, limit |-> 0]

(***************************************************************************)
(* search_places: its pure steps.                                          *)
(***************************************************************************)
\* variant of EffectiveLimit: the cap of 50 is left out
EffectiveLimitNoCap(n) == IF n = 0 THEN DefaultLimit ELSE n

\* if params.limit == 0 { 10 } else { params.limit.min(50) }
EffectiveLimit(n) == IF n = 0 THEN DefaultLimit ELSE Min(n, MaxLimit)

\* params.q.to_lowercase().split_whitespace().map(|s| format!("%{}%", s)).collect()
Keywords(q) ==
    LET toks == SplitWhitespace(ToLowercase(q))
    IN [i \in 1 .. Len(toks) |-> LikePattern(toks[i])]

\* variant of UserLoc: a missing coordinate defaults to 0
UserLocDefaultZero(r) ==
    IF r.lat = None /\ r.lng = None THEN None
    ELSE Some(<<IF r.lat = None THEN 0 ELSE r.lat[1], IF r.lng = None THEN 0 ELSE r.lng[1]>>)

\* match (params.lat, params.lng) { (Some(lat), Some(lng)) => Some(point), _ => None }
UserLoc(r) == IF r.lat # None /\ r.lng # None THEN Some(<<r.lat[1], r.lng[1]>>) ELSE None

RECURSIVE Ascending(_)
\* the elements of a finite set of integers in ascending order
Ascending(S) ==
    IF S = {} THEN <<>>
    ELSE LET m == CHOOSE x \in S : \A y \in S : x <= y
         IN <<m>> \o Ascending(S \ {m})

\* slice::sort_by on integer keys, key[i] being the key of s[i]: a stable sort
StableSortBy(s, key) ==
    LET keys == Ascending({key[i] : i \in 1 .. Len(s)})
        order == Concat([j \in 1 .. Len(keys) |->
                            SelectSeq([i \in 1 .. Len(s) |-> i], LAMBDA i : key[i] = keys[j])])
    IN [p \in 1 .. Len(s) |-> s[order[p]]]

\* i64::MAX, held as the largest integer the model checker represents
I64Max == 2147483647

\* a.distance_meters.unwrap_or(i64::MAX)
DistanceKey(info) ==
    IF info.distance_meters = None THEN I64Max ELSE info.distance_meters[1]

\* a.name.len()
NameKey(info) == ByteLen(info.name)

\* the loop over the fetched rows: one LocationInfo per row, in row order
Annotate(fetched, loc) ==
    [i \in 1 .. Len(fetched) |->
        LocationInfo(fetched[i],
                     IF loc = None THEN None
                     ELSE Some(HaversineMeters(loc[1][1], loc[1][2],
                                               fetched[i].lat, fetched[i].lng)))]

\* the sort on distance or on name length
SortResults(results, loc) ==
    IF loc # None
    THEN StableSortBy(results, [i \in 1 .. Len(results) |-> DistanceKey(results[i])])
    ELSE StableSortBy(results, [i \in 1 .. Len(results) |-> NameKey(results[i])])

\* variant of SearchResults: the rows are truncated before they are sorted
SearchResultsTruncateFirst(fetched, r) ==
    SortResults(Annotate(Truncate(fetched, EffectiveLimit(r.limit)), UserLoc(r)), UserLoc(r))

\* the Ok(rows) arm: annotate, sort, truncate
SearchResults(fetched, r) ==
    Truncate(SortResults(Annotate(fetched, UserLoc(r)), UserLoc(r)), EffectiveLimit(r.limit))

(***************************************************************************)
(* The handlers.  A request task is idle, waits on its repository call     *)
(* ("fetch"), walks the candidate rows ("loop", reverse geocoding only) or *)
(* holds its response ("done").  queries counts the repository calls the   *)
(* task has issued; dbOk records how its call ended; tested lists the      *)
(* candidates whose boundary it has decoded.                               *)
(***************************************************************************)
Reqs == 1 .. NumReq

\* every task idle: the state once main has built the router
InitTasks ==
    /\ pc = [r \in Reqs |-> "idle"]
    /\ req = [r \in Reqs |-> NoReq]
    /\ dbOk = [r \in Reqs |-> TRUE]
    /\ rows = [r \in Reqs |-> <<>>]
    /\ idx = [r \in Reqs |-> 0]
    /\ tested = [r \in Reqs |-> <<>>]
    /\ resp = [r \in Reqs |-> NoResp]
    /\ queries = [r \in Reqs |-> 0]

Init ==
    /\ db \in Tables(MaxVillages)
    /\ InitTasks

\* reverse_geocode up to its await on fetch_all
ReverseStart(r, lat, lng) ==
    /\ pc[r] = "idle"
    /\ req' = [req EXCEPT ![r] = [kind |-> "reverse", lat |-> Some(lat), lng |-> Some(lng),
                                  q |-> <<>>, limit |-> 0]]
    /\ queries' = [queries EXCEPT ![r] = 1]
    /\ pc' = [pc EXCEPT ![r] = "fetch"]
    /\ UNCHANGED <<db, dbOk, rows, idx, tested, resp>>

\* variant of ReverseFetchOk: the fetched rows go to a buffer all tasks share
ReverseFetchOkShared(r) ==
    /\ pc[r] = "fetch" /\ req[r].kind = "reverse"
    /\ rows' = [x \in Reqs |-> FindByBoundingBox(db, req[r].lat[1], req[r].lng[1])]
    /\ idx' = [idx EXCEPT ![r] = 1]
    /\ dbOk' = [dbOk EXCEPT ![r] = TRUE]
    /\ pc' = [pc EXCEPT ![r] = "loop"]
    /\ UNCHANGED <<db, req, tested, resp, queries>>

\* fetch_all returns Ok(rows): the loop starts at the first row
ReverseFetchOk(r) ==
    /\ pc[r] = "fetch" /\ req[r].kind = "reverse"
    /\ rows' = [rows EXCEPT ![r] = FindByBoundingBox(db, req[r].lat[1], req[r].lng[1])]
    /\ idx' = [idx EXCEPT ![r] = 1]
    /\ dbOk' = [dbOk EXCEPT ![r] = TRUE]
    /\ pc' = [pc EXCEPT ![r] = "loop"]
    /\ UNCHANGED <<db, req, tested, resp, queries>>

\* fetch_all returns Err(e)
ReverseFetchErr(r) ==
    /\ pc[r] = "fetch" /\ req[r].kind = "reverse"
    /\ dbOk' = [dbOk EXCEPT ![r] = FALSE]
    /\ resp' = [resp EXCEPT ![r] = InternalError]
    /\ pc' = [pc EXCEPT ![r] = "done"]
    /\ UNCHANGED <<db, req, rows, idx, tested, queries>>

\* the response for the row whose boundary contains the point
Found(row, lat, lng) ==
    ApiResponse(200, TRUE,
                OneData(LocationInfo(row, Some(HaversineMeters(lat, lng, row.lat, row.lng)))),
                None)

\* variant of ReverseLoop: the loop does not return at a match, the last match wins
ReverseLoopLastMatch(r) ==
    /\ pc[r] = "loop"
    /\ IF idx[r] > Len(rows[r])
       THEN /\ resp' = [resp EXCEPT ![r] = IF @ = NoResp THEN NotFound ELSE @]
            /\ pc' = [pc EXCEPT ![r] = "done"]
            /\ UNCHANGED <<idx, tested>>
       ELSE LET row == rows[r][idx[r]]
                geom == WkbToGeo(row.boundaries)
                lat == req[r].lat[1]
                lng == req[r].lng[1]
            IN /\ tested' = [tested EXCEPT ![r] = Append(@, idx[r])]
               /\ idx' = [idx EXCEPT ![r] = @ + 1]
               /\ resp' = IF geom.ok /\ Contains(geom.ring, <<lng, lat>>)
                          THEN [resp EXCEPT ![r] = Found(row, lat, lng)]
                          ELSE resp
               /\ UNCHANGED pc
    /\ UNCHANGED <<db, req, dbOk, rows, queries>>

\* variant of ReverseLoop: a boundary that fails to decode aborts the request
ReverseLoopAbortOnDecodeError(r) ==
    /\ pc[r] = "loop"
    /\ IF idx[r] > Len(rows[r])
       THEN /\ resp' = [resp EXCEPT ![r] = NotFound]
            /\ pc' = [pc EXCEPT ![r] = "done"]
            /\ UNCHANGED <<idx, tested>>
       ELSE LET row == rows[r][idx[r]]
                geom == WkbToGeo(row.boundaries)
                lat == req[r].lat[1]
                lng == req[r].lng[1]
            IN /\ tested' = [tested EXCEPT ![r] = Append(@, idx[r])]
               /\ IF ~geom.ok
                  THEN /\ resp' = [resp EXCEPT ![r] = InternalError]
                       /\ pc' = [pc EXCEPT ![r] = "done"]
                       /\ UNCHANGED idx
                  ELSE IF Contains(geom.ring, <<lng, lat>>)
                  THEN /\ resp' = [resp EXCEPT ![r] = Found(row, lat, lng)]
                       /\ pc' = [pc EXCEPT ![r] = "done"]
                       /\ UNCHANGED idx
                  ELSE /\ idx' = [idx EXCEPT ![r] = @ + 1]
                       /\ UNCHANGED <<resp, pc>>
    /\ UNCHANGED <<db, req, dbOk, rows, queries>>

\* one pass of "for row in rows", or the fall-through after the last row
ReverseLoop(r) ==
    /\ pc[r] = "loop"
    /\ IF idx[r] > Len(rows[r])
       THEN /\ resp' = [resp EXCEPT ![r] = NotFound]
            /\ pc' = [pc EXCEPT ![r] = "done"]
            /\ UNCHANGED <<idx, tested>>
       ELSE LET row == rows[r][idx[r]]
                geom == WkbToGeo(row.boundaries)
                lat == req[r].lat[1]
                lng == req[r].lng[1]
            IN /\ tested' = [tested EXCEPT ![r] = Append(@, idx[r])]
               /\ IF geom.ok /\ Contains(geom.ring, <<lng, lat>>)
                  THEN /\ resp' = [resp EXCEPT ![r] = Found(row, lat, lng)]
                       /\ pc' = [pc EXCEPT ![r] = "done"]
                       /\ UNCHANGED idx
                  ELSE /\ idx' = [idx EXCEPT ![r] = @ + 1]
                       /\ UNCHANGED <<resp, pc>>
    /\ UNCHANGED <<db, req, dbOk, rows, queries>>

\* search_places up to its await on fetch_all, or to its early return
SearchStart(r, q, limit, lat, lng) ==
    /\ pc[r] = "idle"
    /\ req' = [req EXCEPT ![r] = [kind |-> "search", lat |-> lat, lng |-> lng,
                                  q |-> q, limit |-> limit]]
    /\ IF Keywords(q) = <<>>
       THEN /\ resp' = [resp EXCEPT ![r] = ApiResponse(200, TRUE, ListData(<<>>), None)]
            /\ pc' = [pc EXCEPT ![r] = "done"]
            /\ UNCHANGED queries
       ELSE /\ queries' = [queries EXCEPT ![r] = 1]
            /\ pc' = [pc EXCEPT ![r] = "fetch"]
            /\ UNCHANGED resp
    /\ UNCHANGED <<db, dbOk, rows, idx, tested>>

\* fetch_all returns Ok(rows): annotate, sort, truncate, respond
SearchFetchOk(r) ==
    /\ pc[r] = "fetch" /\ req[r].kind = "search"
    /\ LET fetched == FindByKeywords(db, Keywords(req[r].q))
       IN /\ rows' = [rows EXCEPT ![r] = fetched]
          /\ resp' = [resp EXCEPT ![r] =
                         ApiResponse(200, TRUE, ListData(SearchResults(fetched, req[r])), None)]
    /\ dbOk' = [dbOk EXCEPT ![r] = TRUE]
    /\ pc' = [pc EXCEPT ![r] = "done"]
    /\ UNCHANGED <<db, req, idx, tested, queries>>

\* variant of SearchFetchErr: a failed repository call answers as an empty search
SearchFetchErrEmptyOk(r) ==
    /\ pc[r] = "fetch" /\ req[r].kind = "search"
    /\ dbOk' = [dbOk EXCEPT ![r] = FALSE]
    /\ resp' = [resp EXCEPT ![r] = ApiResponse(200, TRUE, ListData(<<>>), None)]
    /\ pc' = [pc EXCEPT ![r] = "done"]
    /\ UNCHANGED <<db, req, rows, idx, tested, queries>>

\* fetch_all returns Err(e)
SearchFetchErr(r) ==
    /\ pc[r] = "fetch" /\ req[r].kind = "search"
    /\ dbOk' = [dbOk EXCEPT ![r] = FALSE]
    /\ resp' = [resp EXCEPT ![r] = InternalError]
    /\ pc' = [pc EXCEPT ![r] = "done"]
    /\ UNCHANGED <<db, req, rows, idx, tested, queries>>

\* the response is sent and the task ends
Finish(r) ==
    /\ pc[r] = "done"
    /\ pc' = [pc EXCEPT ![r] = "idle"]
    /\ req' = [req EXCEPT ![r] = NoReq]
    /\ dbOk' = [dbOk EXCEPT ![r] = TRUE]
    /\ rows' = [rows EXCEPT ![r] = <<>>]
    /\ idx' = [idx EXCEPT ![r] = 0]
    /\ tested' = [tested EXCEPT ![r] = <<>>]
    /\ resp' = [resp EXCEPT ![r] = NoResp]
    /\ queries' = [queries EXCEPT ![r] = 0]
    /\ UNCHANGED db

(***************************************************************************)
(* Specifications.  Spec runs NumReq request tasks concurrently over two   *)
(* tables; the others run one task over every table of the bound and a    *)
(* wider range of inputs.                                                  *)
(***************************************************************************)
\* the strings of at most n code points over the alphabet a, B, space, _, %, É
Strings(n) == UNION { [1 .. k -> {97, 66, 32, 95, 37, 201}] : k \in 0 .. n }

\* the (lat, lng) parameter pairs a search request may carry
RefPoints ==
    { <<None, None>>, <<Some(1), None>>, <<None, Some(1)>>,
      <<Some(0), Some(0)>>, <<Some(2), Some(4)>> }

Next ==
    \E r \in Reqs :
        \/ \E lat \in {1, 2}, lng \in {2, 4} : ReverseStart(r, lat, lng)
        \/ ReverseFetchOk(r)
        \/ ReverseFetchErr(r)
        \/ ReverseLoop(r)
        \/ \E q \in {<<97>>, <<32>>}, p \in {<<None, None>>, <<Some(0), Some(0)>>} :
               SearchStart(r, q, 1, p[1], p[2])
        \/ SearchFetchOk(r)
        \/ SearchFetchErr(r)
        \/ Finish(r)

InitConc ==
    /\ InitTasks
    /\ db \in {TableOf(<<3, 1, 2>>), TableOf(<<2, 5>>)}

Spec == InitConc /\ [][Next]_vars

NextReverse ==
    \/ \E lat \in Coords, lng \in Coords : ReverseStart(1, lat, lng)
    \/ ReverseFetchOk(1)
    \/ ReverseFetchErr(1)
    \/ ReverseLoop(1)
    \/ Finish(1)

SpecReverse == Init /\ [][NextReverse]_vars

NextFilter ==
    \/ \E q \in Strings(MaxQLen) : SearchStart(1, q, 0, None, None)
    \/ SearchFetchOk(1)
    \/ SearchFetchErr(1)
    \/ Finish(1)

SpecFilter == Init /\ [][NextFilter]_vars

InitRank ==
    /\ InitTasks
    /\ db \in Tables(MaxVillages) \cup {BigTable(n) : n \in {9, 11, 49, 51, 99, 101}}

NextRank ==
    \/ \E q \in {<<97>>, <<66>>}, n \in {0, 1, 2, 10, 50, 51, 1000}, p \in RefPoints :
           SearchStart(1, q, n, p[1], p[2])
    \/ SearchFetchOk(1)
    \/ SearchFetchErr(1)
    \/ Finish(1)

SpecRank == InitRank /\ [][NextRank]_vars

(***************************************************************************)
(* Properties.                                                             *)
(***************************************************************************)
\* task r holds the response of a request of the given kind
Done(r, kind) == pc[r] = "done" /\ req[r].kind = kind

\* the lowercased, whitespace-separated tokens of a query
Tokens(q) == SplitWhitespace(ToLowercase(q))

\* the boundary of the row decodes and contains the point
ContainsPoint(row, lat, lng) ==
    WkbToGeo(row.boundaries).ok /\ Contains(WkbToGeo(row.boundaries).ring, <<lng, lat>>)

\* the indices of the candidates whose boundary decodes and contains the point
Matching(cands, lat, lng) == {i \in 1 .. Len(cands) : ContainsPoint(cands[i], lat, lng)}

\* the least element of a non-empty set of integers
Least(S) == CHOOSE x \in S : \A y \in S : x <= y

\* C1: reverse_geocode answers with the village of the first candidate, in
\* prefilter order, whose boundary decodes and contains the point; it decodes
\* the candidates up to that one and no candidate after it; and it answers
\* "Location not found" exactly when no candidate's boundary contains the point.
C1_FirstMatchWins ==
    \A r \in Reqs :
        req[r].kind = "reverse" /\ pc[r] \in {"loop", "done"} /\ dbOk[r] =>
            LET lat == req[r].lat[1]
                lng == req[r].lng[1]
                M == Matching(rows[r], lat, lng)
            IN /\ rows[r] = FindByBoundingBox(db, lat, lng)
               /\ M # {} => \A k \in 1 .. Len(tested[r]) : tested[r][k] <= Least(M)
               /\ pc[r] = "done" =>
                    /\ (resp[r] = NotFound) <=> (M = {})
                    /\ M = {} => tested[r] = [k \in 1 .. Len(rows[r]) |-> k]
                    /\ M # {} =>
                         /\ resp[r].status = 200 /\ resp[r].success
                         /\ resp[r].error = None
                         /\ resp[r].data.tag = "one"
                         /\ resp[r].data.v[1].id = rows[r][Least(M)].id
                         /\ tested[r] = [k \in 1 .. Least(M) |-> k]

\* C1 witness: a match found behind a candidate that does not contain the
\* point, with a later candidate that contains the point as well
C1_Witness ==
    /\ Done(1, "reverse") /\ resp[1].success
    /\ Len(tested[1]) >= 2
    /\ \E i \in Len(tested[1]) + 1 .. Len(rows[1]) :
           ContainsPoint(rows[1][i], req[1].lat[1], req[1].lng[1])

\* the boundary of the row decodes
Decodable(row) == WkbToGeo(row.boundaries).ok

RECURSIVE FirstContaining(_, _, _)
\* the answer over candidates that all decode: the first that contains the point
FirstContaining(cands, lat, lng) ==
    IF cands = <<>> THEN NotFound
    ELSE IF Contains(WkbToGeo(Head(cands).boundaries).ring, <<lng, lat>>)
         THEN Found(Head(cands), lat, lng)
         ELSE FirstContaining(Tail(cands), lat, lng)

\* C7: a candidate whose boundary fails to decode is skipped: the answer of
\* reverse_geocode is the answer for the same candidates with the undecodable
\* ones removed, and it is never an error response.
C7_UndecodableSkipped ==
    \A r \in Reqs :
        Done(r, "reverse") /\ dbOk[r] =>
            /\ resp[r] = FirstContaining(SelectSeq(rows[r], Decodable),
                                         req[r].lat[1], req[r].lng[1])
            /\ resp[r].status = 200

\* C7 witness: a match found behind a candidate whose boundary does not decode
C7_Witness ==
    /\ Done(1, "reverse") /\ resp[1].success
    /\ \E k \in 1 .. Len(tested[1]) : ~Decodable(rows[1][tested[1][k]])

\* C8: a failed repository call ends in the fixed internal error (HTTP 500,
\* success false, data null, "Internal server error"), for both handlers, and
\* no task issues a second repository call.
C8_StorageFailure ==
    \A r \in Reqs :
        /\ queries[r] <= 1
        /\ pc[r] = "done" /\ ~dbOk[r] =>
              resp[r] = [status |-> 500, success |-> FALSE,
                         data |-> [tag |-> "null", v |-> <<>>],
                         error |-> <<"Internal server error">>]

\* C8 witness: a reverse-geocode task and a search task both hold the answer
\* to a failed repository call
C8_Witness ==
    /\ Done(1, "reverse") /\ ~dbOk[1]
    /\ Done(2, "search") /\ ~dbOk[2]

\* the response of a request run alone against the table, given how its
\* repository call ends
RunAlone(rq, ok) ==
    IF rq.kind = "reverse"
    THEN IF ok
         THEN FirstContaining(SelectSeq(FindByBoundingBox(db, rq.lat[1], rq.lng[1]), Decodable),
                              rq.lat[1], rq.lng[1])
         ELSE InternalError
    ELSE IF Keywords(rq.q) = <<>> THEN ApiResponse(200, TRUE, ListData(<<>>), None)
    ELSE IF ok
         THEN ApiResponse(200, TRUE,
                          ListData(SearchResults(FindByKeywords(db, Keywords(rq.q)), rq)), None)
         ELSE InternalError

\* every finished task holds the response its request gets when run alone
IsolatedResponses == \A r \in Reqs : pc[r] = "done" => resp[r] = RunAlone(req[r], dbOk[r])

\* C10: under any interleaving of the request tasks each response equals the
\* response of the same request run alone against the same table, and no step
\* of any task changes the table.
C10_RequestsIndependent == [](IsolatedResponses) /\ [][db' = db]_vars

\* C10 witness: two tasks of different kinds hold their responses at once,
\* each with data
C10_Witness ==
    /\ Done(1, "reverse") /\ resp[1].success
    /\ Done(2, "search") /\ resp[2].success /\ Len(resp[2].data.v) >= 1

\* C6: a query that is empty or all whitespace is answered with success, an
\* empty list and no error, and no repository call is issued for it.
C6_EmptyQuery ==
    \A r \in Reqs :
        req[r].kind = "search" /\ (\A i \in 1 .. Len(req[r].q) : IsWhitespace(req[r].q[i])) =>
            /\ pc[r] # "fetch"
            /\ queries[r] = 0
            /\ pc[r] = "done" =>
                  resp[r] = [status |-> 200, success |-> TRUE,
                             data |-> [tag |-> "list", v |-> <<>>], error |-> <<>>]

\* C6 witness: the response to a query of two spaces
C6_Witness == Done(1, "search") /\ req[1].q = <<32, 32>>

\* k occurs in f as a literal substring, letter case aside
CISubstring(k, f) ==
    \E i \in 0 .. Len(f) - Len(k) : ToLowercase(SubSeq(f, i + 1, i + Len(k))) = ToLowercase(k)

\* every keyword occurs in one of the four names of the row
LiteralMatch(v, toks) ==
    \A i \in 1 .. Len(toks) :
        \E f \in {v.name, v.district, v.regency, v.province} : CISubstring(toks[i], f)

\* C2: with a non-empty keyword list, a village is selected if and only if
\* every keyword is a literal case-insensitive substring of one of its four
\* names, and every returned result satisfies that.
C2_LiteralConjunctiveFilter ==
    \A r \in Reqs :
        Done(r, "search") /\ dbOk[r] /\ Tokens(req[r].q) # <<>> =>
            LET toks == Tokens(req[r].q)
            IN /\ Len(db) <= PoolCap =>
                    \A i \in 1 .. Len(db) :
                        LiteralMatch(db[i], toks) <=> (\E j \in 1 .. Len(rows[r]) : rows[r][j] = db[i])
               /\ \A j \in 1 .. Len(resp[r].data.v) :
                      \E i \in 1 .. Len(db) : /\ db[i].id = resp[r].data.v[j].id
                                              /\ LiteralMatch(db[i], toks)

\* the documented limit: 10 for a requested 0, otherwise the requested one, at most 50
StatedLimit(n) == IF n = 0 THEN 10 ELSE IF n <= 50 THEN n ELSE 50

\* C3: a successful search returns exactly min(effective limit, size of the
\* candidate pool) results, the effective limit being 10 for a requested 0
\* and min(n, 50) otherwise; it never returns more than 50.
C3_LimitClamp ==
    \A r \in Reqs :
        Done(r, "search") /\ resp[r].success =>
            /\ Len(resp[r].data.v) = Min(StatedLimit(req[r].limit), Len(rows[r]))
            /\ Len(resp[r].data.v) <= 50

\* C3 witness: a requested limit of 1000 over a pool of more than 50 rows
C3_Witness ==
    /\ Done(1, "search") /\ resp[1].success
    /\ req[1].limit = 1000 /\ Len(rows[1]) > 50 /\ Len(resp[1].data.v) = 50

\* C4: with a reference point the results are the first (effective limit)
\* candidates in ascending order of distance to it: adjacent results have
\* non-decreasing distance, each result is a candidate with its own distance,
\* and no candidate left out is nearer than a returned one.
C4_DistanceOrder ==
    \A r \in Reqs :
        Done(r, "search") /\ dbOk[r] /\ Tokens(req[r].q) # <<>>
          /\ req[r].lat # None /\ req[r].lng # None =>
            LET res == resp[r].data.v
                D(row) == HaversineMeters(req[r].lat[1], req[r].lng[1], row.lat, row.lng)
                Left == {k \in 1 .. Len(rows[r]) : \A i \in 1 .. Len(res) : res[i].id # rows[r][k].id}
            IN /\ Len(res) = Min(StatedLimit(req[r].limit), Len(rows[r]))
               /\ \A i \in 1 .. Len(res) - 1 :
                      res[i].distance_meters[1] <= res[i + 1].distance_meters[1]
               /\ \A i, j \in 1 .. Len(res) : i # j => res[i].id # res[j].id
               /\ \A i \in 1 .. Len(res) :
                      \E k \in 1 .. Len(rows[r]) : /\ rows[r][k].id = res[i].id
                                                   /\ res[i].distance_meters = <<D(rows[r][k])>>
               /\ \A k \in Left : \A i \in 1 .. Len(res) :
                      res[i].distance_meters[1] <= D(rows[r][k])

\* C4 witness: the sort moved a row to the front and the limit cut a farther row off
C4_Witness ==
    /\ Done(1, "search") /\ dbOk[1] /\ req[1].lat # None /\ req[1].lng # None
    /\ Len(resp[1].data.v) >= 2 /\ Len(rows[1]) > Len(resp[1].data.v)
    /\ resp[1].data.v[1].id # rows[1][1].id
    /\ resp[1].data.v[1].distance_meters[1] < resp[1].data.v[2].distance_meters[1]

\* C5: with no reference point, of any two returned results the one whose
\* name has fewer characters comes first.
C5_CharLengthOrder ==
    \A r \in Reqs :
        Done(r, "search") /\ dbOk[r] /\ (req[r].lat = None \/ req[r].lng = None) =>
            \A i, j \in 1 .. Len(resp[r].data.v) :
                CharLen(resp[r].data.v[i].name) < CharLen(resp[r].data.v[j].name) => i < j

\* C9: a result carries a distance if and only if both lat and lng were
\* given; with only one of them given the results are those of the same
\* request with neither.
C9_DistancePresence ==
    \A r \in Reqs :
        Done(r, "search") /\ resp[r].success =>
            /\ \A i \in 1 .. Len(resp[r].data.v) :
                   (resp[r].data.v[i].distance_meters # None)
                       <=> (req[r].lat # None /\ req[r].lng # None)
            /\ (req[r].lat = None) # (req[r].lng = None) =>
                   resp[r].data.v = SearchResults(rows[r], [req[r] EXCEPT !.lat = None, !.lng = None])

\* C9 witness: a search with lat and without lng that returns rows, reordered by name length
C9_Witness ==
    /\ Done(1, "search") /\ resp[1].success
    /\ req[1].lat # None /\ req[1].lng = None
    /\ Len(resp[1].data.v) >= 2
    /\ resp[1].data.v[1].id # rows[1][1].id

====
